---- MODULE Spec2Model ----
(***************************************************************************)
(* Model of code/models.py: the node-pair index tables of Decoder.forward, *)
(* the structural attention mask of get_attention_mask / GraphTrans.encoder*)
(* and the loss of GraphTrans.compute_loss.                                *)
(*                                                                         *)
(* Tensors are functions over 0-based index ranges (as in the source);     *)
(* Python lists are TLA+ sequences whose elements keep their 0-based       *)
(* values.                                                                 *)
(***************************************************************************)
EXTENDS Integers, Sequences, FiniteSets, TLC

\* ---------------------------------------------------------------- bounds
Bsz == 2          \* batch size of the decoder and of the loss
EncBsz == 1       \* batch size of the encoder
MaxSteps == 12    \* longest target node sequence
MaxNodes == 2     \* width of the source edge matrix (most nodes of a graph)
TextLen == 2      \* width of the query token matrix (text_len)
GraphLen == 3     \* width of the node token matrix
MaxCalls == 2     \* encoder calls followed
TgtLen == 2       \* width of the node label matrix
NumEdge == 1      \* width of the edge label matrix
NumClasses == 3   \* size of the (shared) node and edge vocabulary

\* ------------------------------------------------------ program constants
NodePad == 0      \* node_dict.pad()
EdgePad == 0      \* edge_dict.pad()
EdgeBlank == 1    \* edge_dict.index("<blank>")
EdgeRel == EdgeBlank + 1   \* some edge type that is neither pad nor blank
TokenPad == 0     \* pad token id of the text encoder's vocabulary
TokenWord == TokenPad + 1  \* some token id that is not the pad id

VARIABLES
    nodes_x,            \* tgt_graph["nodes"]["x"]: [bsz, steps] node ids
    node_size,          \* node_rnn_outputs.size(1)
    src_nodes_indices,  \* list of source node indices
    tgt_nodes_indices,  \* list of target node indices
    dec_done            \* Decoder.forward has returned

VARIABLES
    src_graph,          \* {edges, node_encodings, node_pos} of the source graphs
    src_text,           \* tokenizer output of the modification queries
    edge_masks,         \* encoder: edge_masks
    adj_masks,          \* encoder: adj_masks
    enc_input_ids,      \* text_and_graph_encodings["input_ids"]
    token_type_ids,     \* text_and_graph_encodings["token_type_ids"]
    attention_mask,     \* text_and_graph_encodings["attention_mask"]
    mem_masks,          \* enc_info["mem_masks"]
    raised,             \* an IndexError left get_attention_mask
    enc_calls           \* number of encoder calls made

dec_vars == <<nodes_x, node_size, src_nodes_indices, tgt_nodes_indices, dec_done>>
enc_inputs == <<src_graph, src_text>>
enc_outputs == <<edge_masks, adj_masks, enc_input_ids, token_type_ids,
                 attention_mask, mem_masks, raised>>
enc_vars == <<enc_inputs, enc_outputs, enc_calls>>
VARIABLES
    nodes_y,            \* tgt_graph["nodes"]["y"]: [bsz, len] node labels
    node_outputs,       \* node predictions: [bsz, len, classes]
    edges_y,            \* tgt_graph["edges"]["y"]: [bsz, num_edge] edge labels
    edge_outputs,       \* edge predictions: [bsz, num_edge, classes]
    node_loss,          \* compute_loss: node_loss
    edge_loss,          \* compute_loss: edge_loss
    loss,               \* the value compute_loss returned, as a fraction
    loss_fresh,         \* compute_loss has run on the present labels
    replaced            \* which labels had a label replaced by pad last

loss_vars == <<nodes_y, node_outputs, edges_y, edge_outputs, node_loss, edge_loss,
               loss, loss_fresh, replaced>>
vars == <<dec_vars, enc_vars, loss_vars>>

Batch == 0 .. (Bsz - 1)
EncBatch == 0 .. (EncBsz - 1)

Max(S) == CHOOSE x \in S : \A y \in S : y <= x

\* ===================================================== Decoder.forward ==

\* (nodes["x"] != self.pad_idx).long().sum(dim=-1)
RECURSIVE CountNonPad(_, _, _)
CountNonPad(row, k, pad) ==
    IF k = 0 THEN 0
    ELSE CountNonPad(row, k - 1, pad) + (IF row[k - 1] # pad THEN 1 ELSE 0)

NodesLens(x) ==
    [b \in DOMAIN x |-> CountNonPad(x[b], Cardinality(DOMAIN x[b]), NodePad)]

\* node_forward packs the embedded nodes with nodes_lens and unpacks the
\* GRU output again: pad_packed_sequence pads to the longest length of the
\* batch, which is therefore the second dimension of node_rnn_outputs.
NodeRnnOutputsSize1(x) == Max({NodesLens(x)[b] : b \in DOMAIN x})

\* reduce(lambda x, y: x+y, lists) for a non-empty list of lists
RECURSIVE Reduce(_)
Reduce(lists) ==
    IF Len(lists) = 1 THEN lists[1]
    ELSE Reduce(SubSeq(lists, 1, Len(lists) - 1)) \o lists[Len(lists)]

\* [[i for _ in range(i)] for i in range(1, node_size-1)]
SrcRows(n) == [i \in 1 .. (n - 2) |-> [k \in 1 .. i |-> i]]

\* [[j for j in range(i)] for i in range(1, node_size-1)]
TgtRows(n) == [i \in 1 .. (n - 2) |-> [k \in 1 .. i |-> k - 1]]

Last(s) == s[Len(s)]

\* variant: the final pair is not appended
SrcNodesIndicesNoAppend(n) ==
    LET base == IF n > 2 THEN Reduce(SrcRows(n)) ELSE << >>
    IN  IF base # << >> THEN base ELSE <<0>>

\* variant: range(1, node_size) instead of range(1, node_size-1)
SrcNodesIndicesWide(n) ==
    LET base == IF n > 1 THEN Reduce(SrcRows(n + 1)) ELSE << >>
    IN  IF base # << >> THEN base \o <<Last(base) + 1>> ELSE <<0>>

SrcNodesIndices(n) ==
    LET base == IF n > 2 THEN Reduce(SrcRows(n)) ELSE << >>
    IN  IF base # << >> THEN base \o <<Last(base) + 1>> ELSE <<0>>

\* variant: the appended target index is read from the source list as it
\* was before line 508 extended it
TgtNodesIndicesStaleSrc(n, src) ==
    LET base == IF n > 2 THEN Reduce(TgtRows(n)) ELSE << >>
    IN  IF base # << >> THEN base \o <<src[Len(src) - 1]>> ELSE <<0>>

\* variant: inner range(1, i+1) instead of range(i)
TgtNodesIndicesShifted(n, src) ==
    LET base == IF n > 2 THEN Reduce([i \in 1 .. (n - 2) |-> [k \in 1 .. i |-> k]])
                ELSE << >>
    IN  IF base # << >> THEN base \o <<Last(src)>> ELSE <<0>>

\* src is the already extended source list (line 514 reads it after 508)
TgtNodesIndices(n, src) ==
    LET base == IF n > 2 THEN Reduce(TgtRows(n)) ELSE << >>
    IN  IF base # << >> THEN base \o <<Last(src)>> ELSE <<0>>

Decoder_forward ==
    /\ ~dec_done
    /\ LET n   == NodeRnnOutputsSize1(nodes_x)
           src == SrcNodesIndices(n)
       IN  /\ node_size' = n
           /\ src_nodes_indices' = src
           /\ tgt_nodes_indices' = TgtNodesIndices(n, src)
    /\ dec_done' = TRUE
    /\ UNCHANGED <<nodes_x, enc_vars, loss_vars>>

\* target node ids of a batch: right-padded rows, lengths sorted in
\* decreasing order and at least 1 (pack_padded_sequence requires both),
\* as wide as the longest row
NodeRow(len, width) == [t \in 0 .. (width - 1) |-> IF t < len THEN 1 ELSE NodePad]

NodeBatches ==
    { [b \in Batch |-> NodeRow(lens[b], lens[0])] :
        lens \in { l \in [Batch -> 1 .. MaxSteps] :
                     \A b \in Batch : b > 0 => l[b] <= l[b - 1] } }

DecIdle ==
    /\ node_size = 0
    /\ src_nodes_indices = << >>
    /\ tgt_nodes_indices = << >>
    /\ dec_done = FALSE

EncIdle ==
    /\ src_graph = << >>
    /\ src_text = << >>
    /\ edge_masks = << >>
    /\ adj_masks = << >>
    /\ enc_input_ids = << >>
    /\ token_type_ids = << >>
    /\ attention_mask = << >>
    /\ mem_masks = << >>
    /\ raised = FALSE
    /\ enc_calls = 0

LossIdle ==
    /\ nodes_y = << >>
    /\ node_outputs = << >>
    /\ edges_y = << >>
    /\ edge_outputs = << >>
    /\ node_loss = 0
    /\ edge_loss = 0
    /\ loss = [num |-> 0, den |-> 1]
    /\ loss_fresh = FALSE
    /\ replaced = "none"

InitPairs ==
    /\ nodes_x \in NodeBatches
    /\ DecIdle
    /\ EncIdle
    /\ LossIdle

NextPairs == Decoder_forward

SpecPairs == InitPairs /\ [][NextPairs]_vars

\* ------------------------------------------------- claims: pair indices

Choose2(m) == (m * (m - 1)) \div 2

IndicesInRange ==
    /\ \A k \in 1 .. Len(src_nodes_indices) : src_nodes_indices[k] \in 0 .. (node_size - 1)
    /\ \A k \in 1 .. Len(tgt_nodes_indices) : tgt_nodes_indices[k] \in 0 .. (node_size - 1)

\* C1 (as stated): for node_size > 2 the tables hold exactly
\* C(n-2, 2) + (n-2) pairs, both have that length, and every index lies in
\* [0, n-1].
C1_Original ==
    (dec_done /\ node_size > 2) =>
        /\ Len(src_nodes_indices) = Choose2(node_size - 2) + (node_size - 2)
        /\ Len(tgt_nodes_indices) = Len(src_nodes_indices)
        /\ IndicesInRange

\* C1 (amended): for node_size > 2 the tables hold exactly
\* C(n-2, 2) + (n-2) + 1 pairs (the triangular count plus the appended final
\* pair), both tables have that length, and every index lies in [0, n-1].
C1_PairCount ==
    (dec_done /\ node_size > 2) =>
        /\ Len(src_nodes_indices) = Choose2(node_size - 2) + (node_size - 2) + 1
        /\ Len(tgt_nodes_indices) = Len(src_nodes_indices)
        /\ IndicesInRange

C1_Witness ==
    /\ dec_done
    /\ node_size = 5
    /\ Len(src_nodes_indices) = 7
    /\ Len(tgt_nodes_indices) = 7

\* C2: for node_size <= 2 (1 and 2) the tables hold exactly one pair whose
\* source and target index are both 0.
C2_DegenerateSinglePair ==
    (dec_done /\ node_size <= 2) =>
        /\ src_nodes_indices = <<0>>
        /\ tgt_nodes_indices = <<0>>

C2_Witness ==
    /\ dec_done
    /\ node_size = 2
    /\ \E b \in Batch : NodesLens(nodes_x)[b] = 1
    /\ Len(src_nodes_indices) = 1

\* the pairs (i, j) with 1 <= i <= n-2 and 0 <= j <= i-1
LowerPairs(n) == { p \in (1 .. (n - 2)) \X (0 .. (n - 2)) : p[2] < p[1] }

LexLess(p, q) == p[1] < q[1] \/ (p[1] = q[1] /\ p[2] < q[2])

PairAt(k) == <<src_nodes_indices[k], tgt_nodes_indices[k]>>

\* the first m steps enumerate LowerPairs(node_size), each pair once, by
\* increasing source index and, for each source index, increasing target index
EnumeratesLowerPairs(m) ==
    /\ m = Cardinality(LowerPairs(node_size))
    /\ \A k \in 1 .. m : PairAt(k) \in LowerPairs(node_size)
    /\ \A k \in 1 .. (m - 1) : LexLess(PairAt(k), PairAt(k + 1))

\* C3 (as stated): for node_size > 2 the tables have equal length, enumerate
\* the pairs (i, j), i = 1..n-2, j = 0..i-1, in increasing order, and at
\* every step k the target index is smaller than the source index.
C3_Original ==
    (dec_done /\ node_size > 2) =>
        /\ Len(tgt_nodes_indices) = Len(src_nodes_indices)
        /\ EnumeratesLowerPairs(Len(src_nodes_indices) - 1)
        /\ \A k \in 1 .. Len(src_nodes_indices) :
              tgt_nodes_indices[k] < src_nodes_indices[k]

\* C3 (amended): for node_size > 2 the tables have equal length; all steps
\* but the last enumerate the pairs (i, j), i = 1..n-2, j = 0..i-1, by
\* increasing i and, for each i, increasing j, and at each of those steps the
\* target index is smaller than the source index (the last step is the
\* appended final pair, which is not part of the enumeration).
C3_LowerTriangularButLast ==
    (dec_done /\ node_size > 2) =>
        /\ Len(tgt_nodes_indices) = Len(src_nodes_indices)
        /\ EnumeratesLowerPairs(Len(src_nodes_indices) - 1)
        /\ \A k \in 1 .. (Len(src_nodes_indices) - 1) :
              tgt_nodes_indices[k] < src_nodes_indices[k]

C3_Witness ==
    /\ dec_done
    /\ node_size = 4
    /\ src_nodes_indices = <<1, 2, 2, 3>>
    /\ tgt_nodes_indices = <<0, 0, 1, 3>>

\* C11: for node_size > 2 the last pair of the tables is (n-1, n-1): the
\* appended source index is the last enumerated source index (n-2) plus one,
\* and the appended target index, read from the extended source list, equals
\* it, so the final step pairs the last node with itself.
C11_LastPairIsLastNode ==
    (dec_done /\ node_size > 2) =>
        /\ src_nodes_indices[Len(src_nodes_indices) - 1] = node_size - 2
        /\ Last(src_nodes_indices) = src_nodes_indices[Len(src_nodes_indices) - 1] + 1
        /\ Last(tgt_nodes_indices) = Last(src_nodes_indices)
        /\ PairAt(Len(src_nodes_indices)) = <<node_size - 1, node_size - 1>>

C11_Witness ==
    /\ dec_done
    /\ node_size = 6
    /\ Last(src_nodes_indices) = 5
    /\ Last(tgt_nodes_indices) = 5
    /\ Len(tgt_nodes_indices) = 11

\* ================================================== get_attention_mask ==

Dim0(t) == Cardinality(DOMAIN t)
Dim1(t) == Cardinality(DOMAIN t[0])

\* lines 38-41: zeros, then text rows, text columns and the diagonal
\* variant: the text columns are not set
InitMaskRowsOnly(bsz, seq_len, text_len) ==
    [b \in 0 .. (bsz - 1) |-> [i \in 0 .. (seq_len - 1) |-> [j \in 0 .. (seq_len - 1) |->
        i < text_len \/ i = j]]]

InitMask(bsz, seq_len, text_len) ==
    [b \in 0 .. (bsz - 1) |-> [i \in 0 .. (seq_len - 1) |-> [j \in 0 .. (seq_len - 1) |->
        i < text_len \/ j < text_len \/ i = j]]]

\* lines 45-46 for one pad position
\* variant: only the row of the pad position is cleared
IsolatePadRowOnly(m, b, p) ==
    [m EXCEPT ![b] = [i \in DOMAIN m[b] |-> [j \in DOMAIN m[b][i] |->
        IF i = p THEN FALSE ELSE m[b][i][j]]]]

IsolatePad(m, b, p) ==
    [m EXCEPT ![b] = [i \in DOMAIN m[b] |-> [j \in DOMAIN m[b][i] |->
        IF i = p \/ j = p THEN FALSE ELSE m[b][i][j]]]]

\* lines 43-46: the first k entries of torch.where(input_ids == 0), which
\* lists the pad positions in row-major order
RECURSIVE PadLoop(_, _, _)
PadLoop(m, input_ids, k) ==
    IF k = 0 THEN m
    ELSE LET prev == PadLoop(m, input_ids, k - 1)
             b    == (k - 1) \div Dim1(input_ids)
             p    == (k - 1) % Dim1(input_ids)
         IN  IF input_ids[b][p] = TokenPad THEN IsolatePad(prev, b, p) ELSE prev

\* lines 50-51: the pair is skipped
\* variant: > instead of >=
SkipPairOffByOne(node_pos_b, idx_u, idx_v) ==
    idx_u > Len(node_pos_b) \/ idx_v > Len(node_pos_b)

SkipPair(node_pos_b, idx_u, idx_v) ==
    idx_u >= Len(node_pos_b) \/ idx_v >= Len(node_pos_b)

\* node_pos_b[idx]: a Python list raises IndexError beyond its length
InTable(node_pos_b, idx) == idx >= 0 /\ idx < Len(node_pos_b)

\* lines 53-59: start_u, end_u, start_v, end_v are local integers; adding
\* text_len rebinds the locals and leaves the table as it was
\* variant: the shifted spans are written back to the table
NodePosShiftedInPlace(node_pos, b, idx_u, idx_v, text_len) ==
    LET shift(t, idx) == [t EXCEPT ![idx + 1] = <<@[1] + text_len, @[2] + text_len>>]
    IN  [node_pos EXCEPT ![b] = shift(shift(@, idx_u), idx_v)]

NodePosAfterShift(node_pos, b, idx_u, idx_v, text_len) == node_pos

\* line 60: attention_mask[idx_b, start_u:end_u, start_v:end_v] = True
\* variant: the block is written transposed
PaintBlockTransposed(m, b, start_u, end_u, start_v, end_v) ==
    [m EXCEPT ![b] = [i \in DOMAIN m[b] |-> [j \in DOMAIN m[b][i] |->
        IF j >= start_u /\ j < end_u /\ i >= start_v /\ i < end_v
        THEN TRUE ELSE m[b][i][j]]]]

PaintBlock(m, b, start_u, end_u, start_v, end_v) ==
    [m EXCEPT ![b] = [i \in DOMAIN m[b] |-> [j \in DOMAIN m[b][i] |->
        IF i >= start_u /\ i < end_u /\ j >= start_v /\ j < end_v
        THEN TRUE ELSE m[b][i][j]]]]

\* lines 49-60 for one adjacent pair; st = [mask, node_pos, raised]
PaintPair(st, b, idx_u, idx_v, text_len) ==
    LET node_pos_b == st.node_pos[b]
    IN  IF st.raised THEN st
        ELSE IF SkipPair(node_pos_b, idx_u, idx_v) THEN st
        ELSE IF ~InTable(node_pos_b, idx_u) \/ ~InTable(node_pos_b, idx_v)
             THEN [st EXCEPT !.raised = TRUE]
        ELSE LET start_u == node_pos_b[idx_u + 1][1] + text_len
                 end_u   == node_pos_b[idx_u + 1][2] + text_len
                 start_v == node_pos_b[idx_v + 1][1] + text_len
                 end_v   == node_pos_b[idx_v + 1][2] + text_len
             IN  [mask     |-> PaintBlock(st.mask, b, start_u, end_u, start_v, end_v),
                  node_pos |-> NodePosAfterShift(st.node_pos, b, idx_u, idx_v, text_len),
                  raised   |-> FALSE]

\* lines 48-60: the first k entries of torch.where(adj_masks), in row-major
\* order of (idx_b, idx_u, idx_v)
RECURSIVE PaintLoop(_, _, _, _)
PaintLoop(st, adj, text_len, k) ==
    IF k = 0 THEN st
    ELSE LET prev == PaintLoop(st, adj, text_len, k - 1)
             n    == Dim1(adj)
             b    == (k - 1) \div (n * n)
             u    == ((k - 1) % (n * n)) \div n
             v    == (k - 1) % n
         IN  IF adj[b][u][v] THEN PaintPair(prev, b, u, v, text_len) ELSE prev

\* the returned mask, the node-position table as the call leaves it, and
\* whether the call raised
GetAttentionMask(adj, node_pos, input_ids, text_len) ==
    LET bsz     == Dim0(input_ids)
        seq_len == Dim1(input_ids)
        m1      == InitMask(bsz, seq_len, text_len)
        m2      == PadLoop(m1, input_ids, bsz * seq_len)
    IN  PaintLoop([mask |-> m2, node_pos |-> node_pos, raised |-> FALSE],
                  adj, text_len, Dim0(adj) * Dim1(adj) * Dim1(adj))

\* ==================================================== GraphTrans.encoder ==

\* line 142
EdgeMasksOf(edges) ==
    [b \in DOMAIN edges |-> [u \in DOMAIN edges[b] |-> [v \in DOMAIN edges[b][u] |->
        edges[b][u][v] # EdgePad /\ edges[b][u][v] # EdgeBlank]]]

\* line 146: [:, diag, diag] = 1
WithDiag(t) ==
    [b \in DOMAIN t |-> [u \in DOMAIN t[b] |-> [v \in DOMAIN t[b][u] |->
        IF u = v THEN TRUE ELSE t[b][u][v]]]]

\* lines 142-146: the two masks after the diagonal has been written
\* variant: adj_masks is edge_masks itself, not a clone
EncoderMasksAliased(edges) ==
    [edge_masks |-> WithDiag(EdgeMasksOf(edges)),
     adj_masks  |-> WithDiag(EdgeMasksOf(edges))]

\* variant: the diagonal is not forced
EncoderMasksNoDiag(edges) ==
    [edge_masks |-> EdgeMasksOf(edges),
     adj_masks  |-> EdgeMasksOf(edges)]

EncoderMasks(edges) ==
    [edge_masks |-> EdgeMasksOf(edges),
     adj_masks  |-> WithDiag(EdgeMasksOf(edges))]

\* line 160: torch.cat([v_text, v_graph], dim=1)
Cat(v_text, v_graph) ==
    [b \in DOMAIN v_text |->
        [i \in 0 .. (Dim1(v_text) + Dim1(v_graph) - 1) |->
            IF i < Dim1(v_text) THEN v_text[b][i] ELSE v_graph[b][i - Dim1(v_text)]]]

\* line 164
SetGraphSegment(tt, text_len) ==
    [b \in DOMAIN tt |-> [i \in DOMAIN tt[b] |-> IF i >= text_len THEN 1 ELSE tt[b][i]]]

\* line 172 (and get_full_attention_mask)
NotPad(input_ids) ==
    [b \in DOMAIN input_ids |-> [i \in DOMAIN input_ids[b] |-> input_ids[b][i] # TokenPad]]

encoder ==
    /\ enc_calls < MaxCalls
    /\ ~raised
    /\ LET masks    == EncoderMasks(src_graph.edges)
           text_len == Dim1(src_text.input_ids)
           ids      == Cat(src_text.input_ids, src_graph.node_encodings.input_ids)
           tt       == SetGraphSegment(Cat(src_text.token_type_ids,
                                           src_graph.node_encodings.token_type_ids),
                                       text_len)
           res      == GetAttentionMask(masks.adj_masks, src_graph.node_pos, ids, text_len)
       IN  /\ edge_masks' = masks.edge_masks
           /\ adj_masks' = masks.adj_masks
           /\ enc_input_ids' = ids
           /\ token_type_ids' = tt
           /\ src_graph' = [src_graph EXCEPT !.node_pos = res.node_pos]
           /\ raised' = res.raised
           /\ IF res.raised
              THEN UNCHANGED <<attention_mask, mem_masks>>
              ELSE /\ attention_mask' = res.mask
                   /\ mem_masks' = NotPad(ids)
    /\ enc_calls' = enc_calls + 1
    /\ UNCHANGED <<src_text, dec_vars, loss_vars>>

\* ------------------------------------------------------- encoder inputs

Spans == { sp \in (0 .. GraphLen) \X (0 .. GraphLen) : sp[1] < sp[2] }

\* node-position tables of 1 .. MaxNodes nodes: half-open token spans inside
\* the node token encoding, one node after the other, each of one or two
\* tokens, after at most one leading token that belongs to no node
NodePosTables ==
    UNION { { t \in [1 .. n -> Spans] :
                /\ t[1][1] <= 1
                /\ \A k \in 1 .. n : t[k][2] - t[k][1] <= 2
                /\ \A k \in 1 .. (n - 1) : t[k + 1][1] = t[k][2] } :
            n \in 1 .. MaxNodes }

\* the node tokens end with the last node; the rest of the row is padding
GraphIds(t) == [i \in 0 .. (GraphLen - 1) |-> IF i < Last(t)[2] THEN TokenWord ELSE TokenPad]

\* the relations of a graph of n nodes: none, one directed edge, or one
\* edge in both directions
RelationSets(n) ==
    LET pairs == { p \in (0 .. (n - 1)) \X (0 .. (n - 1)) : p[1] # p[2] }
    IN  {{}} \cup { {p} : p \in pairs } \cup { {p, <<p[2], p[1]>>} : p \in pairs }

\* edge-type matrices of a graph of n nodes, padded to MaxNodes: blank on the
\* diagonal, blank or a relation elsewhere
EdgeMatrices(n) ==
    { [u \in 0 .. (MaxNodes - 1) |-> [v \in 0 .. (MaxNodes - 1) |->
          IF u >= n \/ v >= n THEN EdgePad
          ELSE IF <<u, v>> \in rel THEN EdgeRel ELSE EdgeBlank]] :
      rel \in RelationSets(n) }

\* one source graph with its query: node positions, edges, query length (the
\* query fills the row or leaves its last token to padding)
Examples ==
    { [node_pos |-> t, edges |-> e, text_len |-> l] :
        t \in NodePosTables, e \in UNION { EdgeMatrices(n) : n \in 1 .. MaxNodes },
        l \in { TextLen - 1, TextLen } \ {0} }

ValidExamples == { x \in Examples : x.edges \in EdgeMatrices(Len(x.node_pos)) }

TextIds(l) == [i \in 0 .. (TextLen - 1) |-> IF i < l THEN TokenWord ELSE TokenPad]

Zeros(ids) == [b \in DOMAIN ids |-> [i \in DOMAIN ids[b] |-> 0]]

Ones01(ids) == [b \in DOMAIN ids |-> [i \in DOMAIN ids[b] |-> IF ids[b][i] # TokenPad THEN 1 ELSE 0]]

SrcGraphOf(batch) ==
    LET ids == [b \in EncBatch |-> GraphIds(batch[b].node_pos)]
    IN  [edges          |-> [b \in EncBatch |-> batch[b].edges],
         node_pos       |-> [b \in EncBatch |-> batch[b].node_pos],
         node_encodings |-> [input_ids      |-> ids,
                             token_type_ids |-> Zeros(ids),
                             attention_mask |-> Ones01(ids)]]

SrcTextOf(batch) ==
    LET ids == [b \in EncBatch |-> TextIds(batch[b].text_len)]
    IN  [input_ids |-> ids, token_type_ids |-> Zeros(ids), attention_mask |-> Ones01(ids)]

InitEncoder ==
    /\ \E batch \in [EncBatch -> ValidExamples] :
          /\ src_graph = SrcGraphOf(batch)
          /\ src_text = SrcTextOf(batch)
    /\ edge_masks = << >>
    /\ adj_masks = << >>
    /\ enc_input_ids = << >>
    /\ token_type_ids = << >>
    /\ attention_mask = << >>
    /\ mem_masks = << >>
    /\ raised = FALSE
    /\ enc_calls = 0
    /\ nodes_x = << >>
    /\ DecIdle
    /\ LossIdle

NextMask == encoder

SpecMask == InitEncoder /\ [][NextMask]_vars

\* ------------------------------------------------ claims: attention mask

Called == enc_calls > 0 /\ ~raised
TextLenOf == Dim1(src_text.input_ids)
Positions == DOMAIN enc_input_ids[0]
IsPadPos(b, i) == enc_input_ids[b][i] = TokenPad
TableNodes(b) == 0 .. (Len(src_graph.node_pos[b]) - 1)

\* the positions of the joint sequence that hold the tokens of node u
SpanOf(b, u) ==
    { i \in Positions : /\ i >= src_graph.node_pos[b][u + 1][1] + TextLenOf
                        /\ i <  src_graph.node_pos[b][u + 1][2] + TextLenOf }

\* some block of the mask was painted outside the diagonal
PaintedOffDiagonal(b) ==
    \E u \in TableNodes(b), v \in TableNodes(b) :
        /\ adj_masks[b][u][v]
        /\ \E i \in SpanOf(b, u), j \in SpanOf(b, v) : i # j /\ attention_mask[b][i][j]

\* C4: every pad position has an all-false row and an all-false column in
\* the returned mask (its own diagonal entry and the entries towards text
\* included), also after adjacency painting.
C4_PadIsolated ==
    Called =>
        \A b \in EncBatch : \A p \in Positions :
            IsPadPos(b, p) =>
                \A j \in Positions : ~attention_mask[b][p][j] /\ ~attention_mask[b][j][p]

C4_Witness ==
    /\ Called
    /\ \E b \in EncBatch :
          /\ \E p \in Positions : p < TextLenOf /\ IsPadPos(b, p)
          /\ \E p \in Positions : p >= TextLenOf /\ IsPadPos(b, p)
          /\ PaintedOffDiagonal(b)

\* C5 (as stated): mask[b, i, j] is true for all j whenever i < text_len and
\* for all i whenever j < text_len.
C5_Original ==
    Called =>
        \A b \in EncBatch : \A i \in Positions, j \in Positions :
            (i < TextLenOf \/ j < TextLenOf) => attention_mask[b][i][j]

\* C5 (amended): whenever i < text_len or j < text_len, mask[b, i, j] is true
\* if neither i nor j is a pad position of b, and false otherwise.
C5_TextVisibleUnlessPad ==
    Called =>
        \A b \in EncBatch : \A i \in Positions, j \in Positions :
            (i < TextLenOf \/ j < TextLenOf) =>
                (attention_mask[b][i][j] <=> (~IsPadPos(b, i) /\ ~IsPadPos(b, j)))

C5_Witness ==
    /\ Called
    /\ \E b \in EncBatch :
          /\ \E i \in Positions, j \in Positions :
                i < TextLenOf /\ j >= TextLenOf /\ IsPadPos(b, j) /\ ~attention_mask[b][i][j]
          /\ \E i \in Positions, j \in Positions :
                i >= TextLenOf /\ j < TextLenOf /\ i # j /\ attention_mask[b][i][j]

\* C6: for non-text, non-pad positions i and j in the token spans of nodes u
\* and v of the table, mask[b, i, j] is true iff adj_masks[b, u, v] is true.
C6_BlockIffAdjacent ==
    Called =>
        \A b \in EncBatch : \A u \in TableNodes(b), v \in TableNodes(b) :
            \A i \in SpanOf(b, u), j \in SpanOf(b, v) :
                (i >= TextLenOf /\ j >= TextLenOf /\ ~IsPadPos(b, i) /\ ~IsPadPos(b, j)) =>
                    (attention_mask[b][i][j] <=> adj_masks[b][u][v])

C6_Witness ==
    /\ Called
    /\ \E b \in EncBatch : \E u \in TableNodes(b), v \in TableNodes(b) :
          /\ u # v
          /\ adj_masks[b][u][v]
          /\ ~adj_masks[b][v][u]
          /\ Cardinality(SpanOf(b, u)) = 2
          /\ \A i \in SpanOf(b, u), j \in SpanOf(b, v) :
                attention_mask[b][i][j] /\ ~attention_mask[b][j][i]

OnlySelfLoops(b) ==
    \A u \in DOMAIN adj_masks[b], v \in DOMAIN adj_masks[b] : adj_masks[b][u][v] => u = v

SameNodeSpan(b, i, j) == \E u \in TableNodes(b) : i \in SpanOf(b, u) /\ j \in SpanOf(b, u)

\* C7 (as stated): with only self-loops, every true entry outside the text
\* block is a diagonal entry, and the diagonal entries are true exactly at
\* the non-pad positions.
C7_Original ==
    Called =>
        \A b \in EncBatch : OnlySelfLoops(b) =>
            \A i \in Positions, j \in Positions :
                (i >= TextLenOf /\ j >= TextLenOf) =>
                    /\ attention_mask[b][i][j] => i = j
                    /\ i = j => (attention_mask[b][i][j] <=> ~IsPadPos(b, i))

\* C7 (amended): with only self-loops, an entry outside the text block is
\* true exactly when it is a diagonal entry of a non-pad position or joins
\* two positions of the token span of one node.
C7_SelfLoopsBlockDiagonal ==
    Called =>
        \A b \in EncBatch : OnlySelfLoops(b) =>
            \A i \in Positions, j \in Positions :
                (i >= TextLenOf /\ j >= TextLenOf) =>
                    (attention_mask[b][i][j] <=>
                        ((i = j /\ ~IsPadPos(b, i)) \/ SameNodeSpan(b, i, j)))

C7_Witness ==
    /\ Called
    /\ \E b \in EncBatch :
          /\ OnlySelfLoops(b)
          /\ Len(src_graph.node_pos[b]) = 2
          /\ \E i \in Positions, j \in Positions :
                i # j /\ i >= TextLenOf /\ j >= TextLenOf /\ attention_mask[b][i][j]
          /\ \E i \in Positions, j \in Positions :
                i # j /\ i >= TextLenOf /\ j >= TextLenOf /\ ~IsPadPos(b, i)
                /\ ~IsPadPos(b, j) /\ ~attention_mask[b][i][j]

\* the adjacent pairs of b that name a node outside the node-position table
OutOfTablePairs(b) ==
    { p \in (DOMAIN adj_masks[b]) \X (DOMAIN adj_masks[b]) :
        /\ adj_masks[b][p[1]][p[2]]
        /\ (p[1] >= Len(src_graph.node_pos[b]) \/ p[2] >= Len(src_graph.node_pos[b])) }

\* the mask that the three steps give when only pairs of table nodes paint
MaskOfTablePairs(b, i, j) ==
    \/ /\ (i < TextLenOf \/ j < TextLenOf \/ i = j)
       /\ ~IsPadPos(b, i)
       /\ ~IsPadPos(b, j)
    \/ \E u \in TableNodes(b), v \in TableNodes(b) :
          adj_masks[b][u][v] /\ i \in SpanOf(b, u) /\ j \in SpanOf(b, v)

C10_EncoderFrame ==
    [][ (enc_calls' = enc_calls + 1) =>
            /\ ~raised'
            /\ src_graph' = src_graph
            /\ src_text' = src_text
            /\ edge_masks' = EdgeMasksOf(src_graph.edges)
            /\ (enc_calls > 0 =>
                    /\ attention_mask' = attention_mask
                    /\ mem_masks' = mem_masks) ]_vars

C10_Witness ==
    /\ enc_calls >= 2
    /\ ~raised
    /\ \E b \in EncBatch :
          /\ PaintedOffDiagonal(b)
          /\ \E u \in DOMAIN adj_masks[b] : adj_masks[b][u][u] /\ ~edge_masks[b][u][u]
          /\ \E p \in Positions : ~mem_masks[b][p]

\* ================================================ GraphTrans.compute_loss ==

Vocab == 0 .. (NumClasses - 1)

\* tensor.view(rows * cols): row-major flattening of a [rows, cols] tensor
Flatten(t) ==
    [k \in 0 .. (Dim0(t) * Dim1(t) - 1) |-> t[k \div Dim1(t)][k % Dim1(t)]]

\* nn.CrossEntropyLoss(reduction="sum", ignore_index=...) on the first k
\* flattened positions.  outputs[k][c] is the cost of class c at position k:
\* the negative logarithm of the probability the softmax gives c.
\* variant: ignore_index is not applied
RECURSIVE XentSumNoIgnore(_, _, _, _)
XentSumNoIgnore(outputs, labels, ignore_index, k) ==
    IF k = 0 THEN 0
    ELSE XentSumNoIgnore(outputs, labels, ignore_index, k - 1) + outputs[k - 1][labels[k - 1]]

RECURSIVE XentSum(_, _, _, _)
XentSum(outputs, labels, ignore_index, k) ==
    IF k = 0 THEN 0
    ELSE XentSum(outputs, labels, ignore_index, k - 1)
         + (IF labels[k - 1] = ignore_index THEN 0 ELSE outputs[k - 1][labels[k - 1]])

\* lines 118-121
NodeLoss(nodes, outputs) ==
    LET bsz     == Dim0(nodes)
        tgt_len == Dim1(nodes)
    IN  XentSum(Flatten(outputs), Flatten(nodes), NodePad, bsz * tgt_len)

\* lines 124-127
EdgeLoss(bsz, edges, outputs) ==
    LET num_edge == Dim1(edges)
    IN  XentSum(Flatten(outputs), Flatten(edges), EdgePad, bsz * num_edge)

compute_loss ==
    /\ ~loss_fresh
    /\ LET bsz == Dim0(nodes_y)
           nl  == NodeLoss(nodes_y, node_outputs)
           el  == EdgeLoss(bsz, edges_y, edge_outputs)
       IN  /\ node_loss' = nl
           /\ edge_loss' = el
           /\ loss' = [num |-> nl + el, den |-> bsz]
    /\ loss_fresh' = TRUE
    /\ UNCHANGED <<nodes_y, node_outputs, edges_y, edge_outputs, replaced>>
    /\ UNCHANGED <<dec_vars, enc_vars>>

\* the caller passes the same predictions with one node label set to pad
ReplaceNodeLabel ==
    /\ loss_fresh
    /\ replaced = "none"
    /\ \E b \in DOMAIN nodes_y : \E t \in DOMAIN nodes_y[b] :
          /\ nodes_y[b][t] # NodePad
          /\ nodes_y' = [nodes_y EXCEPT ![b][t] = NodePad]
    /\ replaced' = "node"
    /\ loss_fresh' = FALSE
    /\ UNCHANGED <<node_outputs, edges_y, edge_outputs, node_loss, edge_loss, loss>>
    /\ UNCHANGED <<dec_vars, enc_vars>>

\* the caller passes the same predictions with one edge label set to pad
ReplaceEdgeLabel ==
    /\ loss_fresh
    /\ replaced = "none"
    /\ \E b \in DOMAIN edges_y : \E k \in DOMAIN edges_y[b] :
          /\ edges_y[b][k] # EdgePad
          /\ edges_y' = [edges_y EXCEPT ![b][k] = EdgePad]
    /\ replaced' = "edge"
    /\ loss_fresh' = FALSE
    /\ UNCHANGED <<nodes_y, node_outputs, edge_outputs, node_loss, edge_loss, loss>>
    /\ UNCHANGED <<dec_vars, enc_vars>>

\* costs of the classes under a softmax that gives the classes r, r+1, ...
\* the probabilities 1/2, 1/4, ..., the last two classes sharing the smallest
\* one; the cost of a class is its negative logarithm to base 2
CostRow(r) ==
    [c \in Vocab |-> LET k == (c - r) % NumClasses
                     IN  IF k = NumClasses - 1 THEN NumClasses - 1 ELSE k + 1]

Predictions(width, shift) ==
    [b \in Batch |-> [t \in 0 .. (width - 1) |-> CostRow((b + t + shift) % NumClasses)]]

\* ground-truth labels of a batch: right-padded rows of non-pad classes (the
\* pad class is class 0)
LabelRow(b, len, width, pad) ==
    [t \in 0 .. (width - 1) |->
        IF t < len THEN 1 + ((b + t) % (NumClasses - 1)) ELSE pad]

LabelBatches(width, pad) ==
    { [b \in Batch |-> LabelRow(b, lens[b], width, pad)] : lens \in [Batch -> 0 .. width] }

InitLoss ==
    /\ nodes_y \in LabelBatches(TgtLen, NodePad)
    /\ edges_y \in LabelBatches(NumEdge, EdgePad)
    /\ \E shift \in Vocab :
          /\ node_outputs = Predictions(TgtLen, shift)
          /\ edge_outputs = Predictions(NumEdge, shift + 1)
    /\ node_loss = 0
    /\ edge_loss = 0
    /\ loss = [num |-> 0, den |-> 1]
    /\ loss_fresh = FALSE
    /\ replaced = "none"
    /\ nodes_x = << >>
    /\ DecIdle
    /\ EncIdle

NextLoss ==
    \/ compute_loss
    \/ ReplaceNodeLabel
    \/ ReplaceEdgeLabel

SpecLoss == InitLoss /\ [][NextLoss]_vars

\* --------------------------------------------------------- claims: loss

NonPadNodePositions == { p \in Batch \X (0 .. (TgtLen - 1)) : nodes_y[p[1]][p[2]] # NodePad }
NonPadEdgePositions == { p \in Batch \X (0 .. (NumEdge - 1)) : edges_y[p[1]][p[2]] # EdgePad }

NodeCostAt(p) == node_outputs[p[1]][p[2]][nodes_y[p[1]][p[2]]]
EdgeCostAt(p) == edge_outputs[p[1]][p[2]][edges_y[p[1]][p[2]]]

\* sums of the per-position costs over a set of positions
RECURSIVE SumNodeCosts(_)
SumNodeCosts(S) ==
    IF S = {} THEN 0
    ELSE LET x == CHOOSE y \in S : TRUE IN NodeCostAt(x) + SumNodeCosts(S \ {x})

RECURSIVE SumEdgeCosts(_)
SumEdgeCosts(S) ==
    IF S = {} THEN 0
    ELSE LET x == CHOOSE y \in S : TRUE IN EdgeCostAt(x) + SumEdgeCosts(S \ {x})

LossIsSumOverNonPad ==
    loss_fresh =>
        /\ node_loss = SumNodeCosts(NonPadNodePositions)
        /\ edge_loss = SumEdgeCosts(NonPadEdgePositions)
        /\ loss = [num |-> node_loss + edge_loss, den |-> Bsz]
        /\ (NonPadNodePositions = {} => node_loss = 0)
        /\ (NonPadEdgePositions = {} => edge_loss = 0)

\* compute_loss runs again after a label was replaced by pad
RecomputedAfterReplace ==
    (~loss_fresh /\ loss_fresh' /\ replaced # "none") =>
        /\ node_loss' <= node_loss
        /\ edge_loss' <= edge_loss
        /\ loss'.num <= loss.num
        /\ loss'.den = loss.den

\* C9: the node term and the edge term are the sums of the per-position
\* costs over the positions whose label is not pad, the result is their sum
\* over the batch size, a label tensor that is all pad gives the term 0, and
\* replacing a non-pad label by pad never increases a term.
C9_LossIgnoresPad == [] LossIsSumOverNonPad /\ [][RecomputedAfterReplace]_vars

C9_Witness ==
    /\ loss_fresh
    /\ replaced = "node"
    /\ node_loss > 0
    /\ NonPadNodePositions # {}
    /\ NonPadEdgePositions = {}
    /\ edge_loss = 0
    /\ loss.den = Bsz

====
